---- MODULE Spec2Model ----
(***************************************************************************)
(* Streaming replace-and-log utility (sample 03): the file system seen by  *)
(* one process (source document, staging file, audit log), the write       *)
(* stream on the staging file, and the orchestrator main /                 *)
(* processFileAndGenerateLog stepping through its await points.            *)
(***************************************************************************)
EXTENDS Integers, Sequences, FiniteSets, TLC

VARIABLES
    pc,                     \* position of main / processFileAndGenerateLog
    srcFile,                \* file at inputFilePath
    srcReadable,            \* whether access(R_OK) on inputFilePath succeeds
    tmpFile,                \* file at temporaryFilePath
    logFile,                \* file at logFilePath
    lines,                  \* lines the lineReader yields, fixed when the read stream is created
    currentLineNumber,
    totalOccurrencesCount,
    matchedLineNumbers,
    wsState,                \* write stream: none | opening | open | closed | errored
    wsBuffer,               \* chunks accepted by write() and not yet on disk
    needDrain,              \* write() returned false and 'drain' is still owed
    exitCode,               \* process exit status
    failedAt,               \* stage whose await threw ("none" while nothing threw)
    committed,              \* rename(tempFilePath, sourceFilePath) has succeeded in this run
    cleanup,                \* outcome of main's unlink: none | removed | unlinkFailed
    logWrites,              \* completed writeFile calls on the log in this run
    submitted,              \* chunks handed to writeStream.write in this run
    run,                    \* number of the current invocation of the script
    startSrc, startTmp, startLog,  \* the three files as they were when the run began
    argHaystack, argNeedle,        \* arguments of a direct call of countNonOverlappingOccurrences
    countResult                    \* its return value, -1 before the call returns

vars == <<pc, srcFile, srcReadable, tmpFile, logFile, lines, currentLineNumber,
          totalOccurrencesCount, matchedLineNumbers, wsState, wsBuffer, needDrain,
          exitCode, failedAt, committed, cleanup, logWrites, submitted, run,
          startSrc, startTmp, startLog, argHaystack, argNeedle, countResult>>

----------------------------------------------------------------------------
(* Bounds *)

MaxLines == 2           \* longest source document, in lines
MaxRuns == 2            \* successive invocations of the script
MaxTextLen == 4         \* longest haystack of a direct call of the counting function
MaxTokenLen == 2        \* longest needle of a direct call of the counting function
HighWaterMark == 12     \* characters the write stream buffers before write() returns false

----------------------------------------------------------------------------
(* Text *)

MatchToken == <<"d", "e", "v", "m", "o", "d", "e">>
ReplacementToken == <<"H", "e", "l", "l", "o", "W", "o", "r", "l", "d">>

\* Line texts the source documents are built from.
SampleLines ==
    { << >>,
      <<"x">>,
      MatchToken,
      MatchToken \o MatchToken,
      MatchToken \o <<"e", "v", "m", "o", "d", "e">>,
      <<"D", "e", "v", "m", "o", "d", "e">>,
      ReplacementToken \o MatchToken }

\* haystack has needle at zero-based index i
MatchAt(haystack, needle, i) ==
    /\ i >= 0
    /\ i + Len(needle) <= Len(haystack)
    /\ \A k \in 1..Len(needle) : haystack[i + k] = needle[k]

\* String.prototype.indexOf(needle, fromIndex), zero-based, -1 when absent
indexOf(haystack, needle, fromIndex) ==
    LET found == { i \in fromIndex..(Len(haystack) - Len(needle)) :
                      MatchAt(haystack, needle, i) }
    IN  IF found = {} THEN -1
        ELSE CHOOSE i \in found : \A j \in found : i <= j

\* the scan resuming one character after the start of a match, which
\* counts overlapping occurrences
RECURSIVE CountLoop_Overlapping(_, _, _, _)
CountLoop_Overlapping(haystack, needle, searchIndex, count) ==
    LET foundAtIndex == indexOf(haystack, needle, searchIndex)
    IN  IF foundAtIndex = -1 THEN count
        ELSE CountLoop_Overlapping(haystack, needle, foundAtIndex + 1, count + 1)

RECURSIVE CountLoop(_, _, _, _)
CountLoop(haystack, needle, searchIndex, count) ==
    LET foundAtIndex == indexOf(haystack, needle, searchIndex)
    IN  IF foundAtIndex = -1 THEN count
        ELSE CountLoop(haystack, needle, foundAtIndex + Len(needle), count + 1)

countNonOverlappingOccurrences(haystack, needle) ==
    IF Len(needle) = 0 THEN 0 ELSE CountLoop(haystack, needle, 0, 0)

\* the same rewrite with a regex lacking the g flag: first match only
replacedLineOf_FirstOnly(originalLine) ==
    LET at == indexOf(originalLine, MatchToken, 0)
    IN  IF at = -1 THEN originalLine
        ELSE SubSeq(originalLine, 1, at) \o ReplacementToken
                \o SubSeq(originalLine, at + Len(MatchToken) + 1, Len(originalLine))

\* originalLine.replace(/devmode/g, 'HelloWorld'): the regex scans the line
\* once from the left, splicing the replacement for each match and resuming
\* after it; the replacement text is never rescanned.
RECURSIVE RegexReplaceFrom(_, _, _)
RegexReplaceFrom(originalLine, lastIndex, out) ==
    IF lastIndex >= Len(originalLine) THEN out
    ELSE IF MatchAt(originalLine, MatchToken, lastIndex)
         THEN RegexReplaceFrom(originalLine, lastIndex + Len(MatchToken),
                               out \o ReplacementToken)
         ELSE RegexReplaceFrom(originalLine, lastIndex + 1,
                               Append(out, originalLine[lastIndex + 1]))

replacedLineOf(originalLine) == RegexReplaceFrom(originalLine, 0, << >>)

----------------------------------------------------------------------------
(* Files *)

Absent == [exists |-> FALSE, content |-> << >>]
File(c) == [exists |-> TRUE, content |-> c]

\* A document is a sequence of lines, each a text and the terminator that
\* follows it; only the last line may lack a terminator, and then its text
\* is not empty.
Terminators == {"\n", "\r\n"}

LineRecs == [text : SampleLines, term : Terminators \cup {""}]

WellFormedDoc(d) ==
    \A i \in 1..Len(d) :
        d[i].term = "" => (i = Len(d) /\ d[i].text # << >>)

Docs ==
    { d \in UNION { [1..n -> LineRecs] : n \in 0..MaxLines } : WellFormedDoc(d) }

\* lines as content.split('\n') would give them: an empty last line after
\* a final terminator
readLines_SplitOnNewline(file) ==
    LET texts == [i \in 1..Len(file.content) |-> file.content[i].text]
    IN  IF Len(texts) > 0 /\ file.content[Len(texts)].term # ""
        THEN Append(texts, << >>)
        ELSE texts

\* readline over the read stream, crlfDelay: Infinity: one line per
\* terminated or final unterminated text, terminator stripped
readLines(file) == [i \in 1..Len(file.content) |-> file.content[i].text]

\* the chunk `${replacedLine}\n`
chunkOf(replacedLine) == [text |-> replacedLine, term |-> "\n"]

\* every line of the file ends as a written chunk does
EndsEveryLineWithNewline(file) ==
    \A i \in 1..Len(file.content) : file.content[i].term = "\n"

\* writableLength: characters of the chunks still buffered, terminators
\* included
RECURSIVE writableLength(_)
writableLength(buffer) ==
    IF buffer = << >> THEN 0
    ELSE Len(Head(buffer).text) + Len(Head(buffer).term) + writableLength(Tail(buffer))

\* what an earlier run of the script left at the staging path
StaleTmp == File(<<[text |-> <<"x">>, term |-> "\n"]>>)

\* what something else left at the staging path: nothing makes such a file
\* "\n"-terminated
StaleTmpCrLf == File(<<[text |-> <<"x">>, term |-> "\r\n"]>>)

\* the field as a bare join(', '): nothing is shown for an empty list
lineField_JoinOnly(numbers) == [marker |-> "list", numbers |-> numbers]

lineField(numbers) ==
    IF Len(numbers) > 0 THEN [marker |-> "list", numbers |-> numbers]
    ELSE [marker |-> "(none)", numbers |-> << >>]

logContents(total, numbers) ==
    <<[occurrences |-> total, lineNumbers |-> lineField(numbers)]>>

StaleLog == File(logContents(1, <<1>>))

----------------------------------------------------------------------------
(* Initial state: the script has not run yet *)

Init ==
    /\ pc = "Idle"
    /\ srcFile \in {Absent} \cup { File(d) : d \in Docs }
    /\ srcReadable \in BOOLEAN
    /\ tmpFile \in {Absent, StaleTmp, StaleTmpCrLf}
    /\ logFile \in {Absent, StaleLog}
    /\ lines = << >>
    /\ currentLineNumber = 0
    /\ totalOccurrencesCount = 0
    /\ matchedLineNumbers = << >>
    /\ wsState = "none"
    /\ wsBuffer = << >>
    /\ needDrain = FALSE
    /\ exitCode = 0
    /\ failedAt = "none"
    /\ committed = FALSE
    /\ cleanup = "none"
    /\ logWrites = 0
    /\ submitted = << >>
    /\ run = 1
    /\ startSrc = srcFile
    /\ startTmp = tmpFile
    /\ startLog = logFile
    /\ argHaystack = << >>
    /\ argNeedle = << >>
    /\ countResult = -1

fsVars == <<srcFile, srcReadable, tmpFile, logFile>>
loopVars == <<lines, currentLineNumber, totalOccurrencesCount, matchedLineNumbers, submitted>>
wsVars == <<wsState, wsBuffer, needDrain>>
startVars == <<run, startSrc, startTmp, startLog>>
harnessVars == <<argHaystack, argNeedle, countResult>>

----------------------------------------------------------------------------
(* Orchestrator *)

\* main() is invoked
MainStart ==
    /\ pc = "Idle"
    /\ pc' = "Validating"
    /\ UNCHANGED <<fsVars, loopVars, wsVars, exitCode, failedAt, committed, cleanup,
                   logWrites, startVars>>
    /\ UNCHANGED harnessVars

\* validation placed after the creation of the streams
ValidateFail_StreamsCreated ==
    /\ pc = "Validating"
    /\ ~(srcFile.exists /\ srcReadable)
    /\ pc' = "Failed"
    /\ failedAt' = "Validating"
    /\ wsState' = "opening"
    /\ UNCHANGED <<fsVars, loopVars, wsBuffer, needDrain, exitCode, committed, cleanup,
                   logWrites, startVars>>
    /\ UNCHANGED harnessVars

\* fsPromises.access(sourceFilePath, R_OK) rejects: the catch rethrows
ValidateFail ==
    /\ pc = "Validating"
    /\ ~(srcFile.exists /\ srcReadable)
    /\ pc' = "Failed"
    /\ failedAt' = "Validating"
    /\ UNCHANGED <<fsVars, loopVars, wsVars, exitCode, committed, cleanup, logWrites,
                   startVars>>
    /\ UNCHANGED harnessVars

\* access resolves; the read stream, the write stream and the line reader
\* are created and the counters initialised. Neither stream has touched
\* the disk yet: the write stream opens its file asynchronously.
ValidateOk ==
    /\ pc = "Validating"
    /\ srcFile.exists /\ srcReadable
    /\ lines' = readLines(srcFile)
    /\ currentLineNumber' = 0
    /\ totalOccurrencesCount' = 0
    /\ matchedLineNumbers' = << >>
    /\ submitted' = << >>
    /\ wsState' = "opening"
    /\ wsBuffer' = << >>
    /\ needDrain' = FALSE
    /\ pc' = "Streaming"
    /\ UNCHANGED <<fsVars, exitCode, failedAt, committed, cleanup, logWrites, startVars>>
    /\ UNCHANGED harnessVars

\* the loop body counting matching lines instead of occurrences
StreamLine_CountsLines ==
    /\ pc = "Streaming"
    /\ currentLineNumber < Len(lines)
    /\ LET originalLine == lines[currentLineNumber + 1]
           occurrencesInLine == countNonOverlappingOccurrences(originalLine, MatchToken)
           replacedLine == replacedLineOf(originalLine)
           buffered == Append(wsBuffer, chunkOf(replacedLine))
           accepted == writableLength(buffered) < HighWaterMark
       IN  /\ currentLineNumber' = currentLineNumber + 1
           /\ totalOccurrencesCount' =
                 IF occurrencesInLine > 0
                 THEN totalOccurrencesCount + 1
                 ELSE totalOccurrencesCount
           /\ matchedLineNumbers' =
                 IF occurrencesInLine > 0
                 THEN Append(matchedLineNumbers, currentLineNumber + 1)
                 ELSE matchedLineNumbers
           /\ submitted' = Append(submitted, chunkOf(replacedLine))
           /\ wsBuffer' = buffered
           /\ needDrain' = (needDrain \/ ~accepted)
           /\ pc' = IF accepted THEN "Streaming" ELSE "AwaitDrain"
    /\ UNCHANGED <<fsVars, lines, wsState, exitCode, failedAt, committed, cleanup,
                   logWrites, startVars>>
    /\ UNCHANGED harnessVars

\* the loop body without the wait for 'drain'
StreamLine_NoBackpressure ==
    /\ pc = "Streaming"
    /\ currentLineNumber < Len(lines)
    /\ LET originalLine == lines[currentLineNumber + 1]
           occurrencesInLine == countNonOverlappingOccurrences(originalLine, MatchToken)
           replacedLine == replacedLineOf(originalLine)
           buffered == Append(wsBuffer, chunkOf(replacedLine))
           accepted == writableLength(buffered) < HighWaterMark
       IN  /\ currentLineNumber' = currentLineNumber + 1
           /\ totalOccurrencesCount' =
                 IF occurrencesInLine > 0
                 THEN totalOccurrencesCount + occurrencesInLine
                 ELSE totalOccurrencesCount
           /\ matchedLineNumbers' =
                 IF occurrencesInLine > 0
                 THEN Append(matchedLineNumbers, currentLineNumber + 1)
                 ELSE matchedLineNumbers
           /\ submitted' = Append(submitted, chunkOf(replacedLine))
           /\ wsBuffer' = buffered
           /\ needDrain' = (needDrain \/ ~accepted)
           /\ pc' = "Streaming"
    /\ UNCHANGED <<fsVars, lines, wsState, exitCode, failedAt, committed, cleanup,
                   logWrites, startVars>>
    /\ UNCHANGED harnessVars

\* one iteration of the for-await loop
StreamLine ==
    /\ pc = "Streaming"
    /\ currentLineNumber < Len(lines)
    /\ LET originalLine == lines[currentLineNumber + 1]
           occurrencesInLine == countNonOverlappingOccurrences(originalLine, MatchToken)
           replacedLine == replacedLineOf(originalLine)
           buffered == Append(wsBuffer, chunkOf(replacedLine))
           accepted == writableLength(buffered) < HighWaterMark      \* value of write()
       IN  /\ currentLineNumber' = currentLineNumber + 1
           /\ totalOccurrencesCount' =
                 IF occurrencesInLine > 0
                 THEN totalOccurrencesCount + occurrencesInLine
                 ELSE totalOccurrencesCount
           /\ matchedLineNumbers' =
                 IF occurrencesInLine > 0
                 THEN Append(matchedLineNumbers, currentLineNumber + 1)
                 ELSE matchedLineNumbers
           /\ submitted' = Append(submitted, chunkOf(replacedLine))
           /\ wsBuffer' = buffered
           /\ needDrain' = (needDrain \/ ~accepted)
           /\ pc' = IF accepted THEN "Streaming" ELSE "AwaitDrain"
    /\ UNCHANGED <<fsVars, lines, wsState, exitCode, failedAt, committed, cleanup,
                   logWrites, startVars>>
    /\ UNCHANGED harnessVars

\* the line reader is exhausted: writeStream.end(cb) is called and the
\* 'error' listener attached
LoopEnd ==
    /\ pc = "Streaming"
    /\ currentLineNumber = Len(lines)
    /\ pc' = "Finalizing"
    /\ UNCHANGED <<fsVars, loopVars, wsVars, exitCode, failedAt, committed, cleanup,
                   logWrites, startVars>>
    /\ UNCHANGED harnessVars

\* The read stream fails. Depending on the runtime the line reader either
\* forwards the error into the for-await loop, where it is thrown at the
\* next line request, or the 'error' event finds no listener and ends the
\* process as an uncaught exception.
ReadFault ==
    /\ pc \in {"Streaming", "AwaitDrain"}
    /\ \E forwarded \in BOOLEAN :
          IF forwarded /\ pc = "Streaming"
          THEN /\ pc' = "Failed"
               /\ failedAt' = "Streaming"
               /\ UNCHANGED exitCode
          ELSE /\ pc' = "Crashed"
               /\ exitCode' = 1
               /\ UNCHANGED failedAt
    /\ UNCHANGED <<fsVars, loopVars, wsVars, committed, cleanup, logWrites, startVars>>
    /\ UNCHANGED harnessVars

----------------------------------------------------------------------------
(* Write stream on the staging file *)

\* open(tempFilePath, 'w') completes: the file is created or truncated
WsOpen ==
    /\ pc # "Crashed"
    /\ wsState = "opening"
    /\ wsState' = "open"
    /\ tmpFile' = File(<< >>)
    /\ UNCHANGED <<pc, srcFile, srcReadable, logFile, loopVars, wsBuffer, needDrain,
                   exitCode, failedAt, committed, cleanup, logWrites, startVars>>
    /\ UNCHANGED harnessVars

\* the oldest buffered chunk reaches the disk; 'drain' is emitted when the
\* buffer empties and a write() had returned false. A file unlinked while
\* the stream holds it open stays absent from the directory.
WsFlush ==
    /\ pc # "Crashed"
    /\ wsState = "open"
    /\ wsBuffer # << >>
    /\ tmpFile' = IF tmpFile.exists
                  THEN File(Append(tmpFile.content, Head(wsBuffer)))
                  ELSE tmpFile
    /\ wsBuffer' = Tail(wsBuffer)
    /\ IF Tail(wsBuffer) = << >> /\ needDrain /\ pc # "Finalizing"
       THEN /\ needDrain' = FALSE
            /\ pc' = IF pc = "AwaitDrain" THEN "Streaming" ELSE pc
       ELSE UNCHANGED <<needDrain, pc>>
    /\ UNCHANGED <<srcFile, srcReadable, logFile, loopVars, wsState, exitCode, failedAt,
                   committed, cleanup, logWrites, startVars>>
    /\ UNCHANGED harnessVars

\* after end(): everything is flushed, the file is closed, the end callback
\* runs and the finalize promise resolves
WsFinish ==
    /\ pc = "Finalizing"
    /\ wsState = "open"
    /\ wsBuffer = << >>
    /\ wsState' = "closed"
    /\ pc' = "Committing"
    /\ UNCHANGED <<fsVars, loopVars, wsBuffer, needDrain, exitCode, failedAt, committed,
                   cleanup, logWrites, startVars>>
    /\ UNCHANGED harnessVars

\* the stream's error met by a listener that does nothing while the loop
\* runs: the process survives and the loop is left where it was
WsFault_IgnoredInLoop ==
    /\ pc \in {"Streaming", "AwaitDrain", "Finalizing", "Failed", "Exited"}
    /\ \/ wsState = "opening"
       \/ wsState = "open" /\ wsBuffer # << >>
    /\ wsState' = "errored"
    /\ wsBuffer' = << >>
    /\ IF pc = "Finalizing"
       THEN \E callbackRunsOnError \in BOOLEAN :
               /\ pc' = IF callbackRunsOnError THEN "Committing" ELSE "Failed"
               /\ failedAt' = IF callbackRunsOnError THEN failedAt ELSE "Finalizing"
               /\ UNCHANGED exitCode
       ELSE UNCHANGED <<pc, exitCode, failedAt>>
    /\ UNCHANGED <<fsVars, loopVars, needDrain, committed, cleanup, logWrites, startVars>>
    /\ UNCHANGED harnessVars

\* The open or a write of the stream fails: the stream is destroyed, what
\* it still buffered is dropped and 'error' is emitted.
\*  - In the loop no 'error' listener exists: the event is an uncaught
\*    exception and the process dies without running main's catch.
\*  - In the finalize step both the callback given to end() and the 'error'
\*    listener are registered. The callback ignores its error argument, so
\*    on a runtime that calls it on failure the promise resolves and the
\*    run goes on to the rename; on one that calls it only on 'finish' the
\*    listener rejects.
WsFault ==
    /\ pc \in {"Streaming", "AwaitDrain", "Finalizing", "Failed", "Exited"}
    /\ \/ wsState = "opening"
       \/ wsState = "open" /\ wsBuffer # << >>
    /\ wsState' = "errored"
    /\ wsBuffer' = << >>
    /\ IF pc = "Finalizing"
       THEN \E callbackRunsOnError \in BOOLEAN :
               /\ pc' = IF callbackRunsOnError THEN "Committing" ELSE "Failed"
               /\ failedAt' = IF callbackRunsOnError THEN failedAt ELSE "Finalizing"
               /\ UNCHANGED exitCode
       ELSE /\ pc' = IF pc = "Exited" THEN pc ELSE "Crashed"
            /\ exitCode' = 1
            /\ UNCHANGED failedAt
    /\ UNCHANGED <<fsVars, loopVars, needDrain, committed, cleanup, logWrites, startVars>>
    /\ UNCHANGED harnessVars

----------------------------------------------------------------------------
(* Commit, audit record, failure handling *)

\* a commit by copyFile: the staging file stays where it was
CommitOk_CopyKeepsStaging ==
    /\ pc = "Committing"
    /\ tmpFile.exists
    /\ srcFile' = tmpFile
    /\ srcReadable' = TRUE
    /\ committed' = TRUE
    /\ pc' = "Logging"
    /\ UNCHANGED <<tmpFile, logFile, loopVars, wsVars, exitCode, failedAt, cleanup,
                   logWrites, startVars>>
    /\ UNCHANGED harnessVars

\* fsPromises.rename(tempFilePath, sourceFilePath) succeeds: one move
CommitOk ==
    /\ pc = "Committing"
    /\ tmpFile.exists
    /\ srcFile' = tmpFile
    /\ srcReadable' = TRUE
    /\ tmpFile' = Absent
    /\ committed' = TRUE
    /\ pc' = "Logging"
    /\ UNCHANGED <<logFile, loopVars, wsVars, exitCode, failedAt, cleanup, logWrites,
                   startVars>>
    /\ UNCHANGED harnessVars

\* a commit by copy-then-delete that fails after the copy
CommitFail_AfterCopy ==
    /\ pc = "Committing"
    /\ srcFile' = IF tmpFile.exists THEN tmpFile ELSE srcFile
    /\ pc' = "Failed"
    /\ failedAt' = "Committing"
    /\ UNCHANGED <<srcReadable, tmpFile, logFile, loopVars, wsVars, exitCode, committed,
                   cleanup, logWrites, startVars>>
    /\ UNCHANGED harnessVars

\* a rejected rename that is swallowed, the run going on to the log
CommitFail_Swallowed ==
    /\ pc = "Committing"
    /\ pc' = "Logging"
    /\ UNCHANGED <<fsVars, loopVars, wsVars, exitCode, failedAt, committed, cleanup,
                   logWrites, startVars>>
    /\ UNCHANGED harnessVars

\* rename rejects (no staging file, cross-device, permission denied)
CommitFail ==
    /\ pc = "Committing"
    /\ pc' = "Failed"
    /\ failedAt' = "Committing"
    /\ UNCHANGED <<fsVars, loopVars, wsVars, exitCode, committed, cleanup, logWrites,
                   startVars>>
    /\ UNCHANGED harnessVars

\* writeResultLog: writeFile replaces the log with the record
writeResultLog ==
    /\ pc = "Logging"
    /\ logFile' = File(logContents(totalOccurrencesCount, matchedLineNumbers))
    /\ logWrites' = logWrites + 1
    /\ pc' = "Done"
    /\ UNCHANGED <<srcFile, srcReadable, tmpFile, loopVars, wsVars, exitCode, failedAt,
                   committed, cleanup, startVars>>
    /\ UNCHANGED harnessVars

\* writeFile rejects, before opening the log or after truncating it
LogFail ==
    /\ pc = "Logging"
    /\ logFile' \in {logFile, File(<< >>)}
    /\ pc' = "Failed"
    /\ failedAt' = "Logging"
    /\ UNCHANGED <<srcFile, srcReadable, tmpFile, loopVars, wsVars, exitCode, committed,
                   cleanup, logWrites, startVars>>
    /\ UNCHANGED harnessVars

\* main's catch without the assignment to process.exitCode
MainCatch_NoExitCode ==
    /\ pc = "Failed"
    /\ \E unlinked \in BOOLEAN :
          IF unlinked /\ tmpFile.exists
          THEN /\ tmpFile' = Absent
               /\ cleanup' = "removed"
          ELSE /\ UNCHANGED tmpFile
               /\ cleanup' = "unlinkFailed"
    /\ pc' = "Exited"
    /\ UNCHANGED <<srcFile, srcReadable, logFile, loopVars, wsVars, exitCode, failedAt,
                   committed, logWrites, startVars>>
    /\ UNCHANGED harnessVars

\* main's catch unlinking the input path instead of the staging path
MainCatch_UnlinksSource ==
    /\ pc = "Failed"
    /\ \E unlinked \in BOOLEAN :
          IF unlinked /\ srcFile.exists
          THEN /\ srcFile' = Absent
               /\ cleanup' = "removed"
          ELSE /\ UNCHANGED srcFile
               /\ cleanup' = "unlinkFailed"
    /\ exitCode' = 1
    /\ pc' = "Exited"
    /\ UNCHANGED <<tmpFile, srcReadable, logFile, loopVars, wsVars, failedAt, committed,
                   logWrites, startVars>>
    /\ UNCHANGED harnessVars

\* main's catch with the unlink outside a try of its own: its rejection
\* takes the place of the error that was caught
MainCatch_UnlinkErrorSurfaces ==
    /\ pc = "Failed"
    /\ \E unlinked \in BOOLEAN :
          IF unlinked /\ tmpFile.exists
          THEN /\ tmpFile' = Absent
               /\ cleanup' = "removed"
               /\ UNCHANGED failedAt
          ELSE /\ UNCHANGED tmpFile
               /\ cleanup' = "unlinkFailed"
               /\ failedAt' = "Cleanup"
    /\ exitCode' = 1
    /\ pc' = "Exited"
    /\ UNCHANGED <<srcFile, srcReadable, logFile, loopVars, wsVars, committed,
                   logWrites, startVars>>
    /\ UNCHANGED harnessVars

\* main's catch: unlink the staging path, swallowing a failure of the
\* unlink, then set process.exitCode
MainCatch ==
    /\ pc = "Failed"
    /\ \E unlinked \in BOOLEAN :
          IF unlinked /\ tmpFile.exists
          THEN /\ tmpFile' = Absent
               /\ cleanup' = "removed"
          ELSE /\ UNCHANGED tmpFile
               /\ cleanup' = "unlinkFailed"
    /\ exitCode' = 1
    /\ pc' = "Exited"
    /\ UNCHANGED <<srcFile, srcReadable, logFile, loopVars, wsVars, failedAt, committed,
                   logWrites, startVars>>
    /\ UNCHANGED harnessVars

\* the script is invoked again after a run that succeeded
Restart ==
    /\ pc = "Done"
    /\ run < MaxRuns
    /\ run' = run + 1
    /\ pc' = "Idle"
    /\ lines' = << >>
    /\ currentLineNumber' = 0
    /\ totalOccurrencesCount' = 0
    /\ matchedLineNumbers' = << >>
    /\ submitted' = << >>
    /\ wsState' = "none"
    /\ wsBuffer' = << >>
    /\ needDrain' = FALSE
    /\ exitCode' = 0
    /\ failedAt' = "none"
    /\ committed' = FALSE
    /\ cleanup' = "none"
    /\ logWrites' = 0
    /\ startSrc' = srcFile
    /\ startTmp' = tmpFile
    /\ startLog' = logFile
    /\ UNCHANGED fsVars
    /\ UNCHANGED harnessVars

Next ==
    \/ MainStart
    \/ ValidateFail
    \/ ValidateOk
    \/ StreamLine
    \/ LoopEnd
    \/ ReadFault
    \/ WsOpen
    \/ WsFlush
    \/ WsFinish
    \/ WsFault
    \/ CommitOk
    \/ CommitFail
    \/ writeResultLog
    \/ LogFail
    \/ MainCatch
    \/ Restart

Spec == Init /\ [][Next]_vars

----------------------------------------------------------------------------
(* countNonOverlappingOccurrences called on its own *)

Alphabet == {"a", "A", "b"}

StringsUpTo(n) == UNION { [1..k -> Alphabet] : k \in 0..n }

\* the process is idle; a haystack and a needle are chosen
CountInit ==
    /\ argHaystack \in StringsUpTo(MaxTextLen)
    /\ argNeedle \in StringsUpTo(MaxTokenLen)
    /\ countResult = -1
    /\ pc = "Idle"
    /\ srcFile = Absent
    /\ srcReadable = FALSE
    /\ tmpFile = Absent
    /\ logFile = Absent
    /\ lines = << >>
    /\ currentLineNumber = 0
    /\ totalOccurrencesCount = 0
    /\ matchedLineNumbers = << >>
    /\ wsState = "none"
    /\ wsBuffer = << >>
    /\ needDrain = FALSE
    /\ exitCode = 0
    /\ failedAt = "none"
    /\ committed = FALSE
    /\ cleanup = "none"
    /\ logWrites = 0
    /\ submitted = << >>
    /\ run = 1
    /\ startSrc = Absent
    /\ startTmp = Absent
    /\ startLog = Absent

\* the call returns
CallCount ==
    /\ countResult = -1
    /\ countResult' = countNonOverlappingOccurrences(argHaystack, argNeedle)
    /\ UNCHANGED <<pc, fsVars, loopVars, wsVars, exitCode, failedAt, committed, cleanup,
                   logWrites, startVars, argHaystack, argNeedle>>

CountNext == CallCount

CountSpec == CountInit /\ [][CountNext]_vars

Terminated == pc \in {"Done", "Exited", "Crashed"}

\* Scheduling: an enabled continuation of the orchestrator runs, and an I/O
\* request the stream has issued (open, write, close) completes. Faults and
\* a further invocation of the script are never forced.
Fairness ==
    /\ WF_vars(MainStart)
    /\ WF_vars(ValidateOk)
    /\ WF_vars(ValidateFail)
    /\ WF_vars(StreamLine)
    /\ WF_vars(LoopEnd)
    /\ WF_vars(WsOpen)
    /\ WF_vars(WsFlush)
    /\ WF_vars(WsFinish)
    /\ WF_vars(CommitOk \/ CommitFail)
    /\ WF_vars(writeResultLog \/ LogFail)
    /\ WF_vars(MainCatch)

FairSpec == Spec /\ Fairness

\* the document with every line rewritten and terminated by "\n"
Transformed(file) ==
    File([i \in 1..Len(file.content) |-> chunkOf(replacedLineOf(file.content[i].text))])

----------------------------------------------------------------------------
(* C1 *)

\* C1: in every reachable state the content at the source path is either
\* exactly the document the run started from or exactly that document
\* completely transformed; no reader ever sees a partial document.
C1_SourceOldOrFullyNew ==
    srcFile \in {startSrc, Transformed(startSrc)}

----------------------------------------------------------------------------
(* C2 *)

\* C2 as stated: when the rename of a finalized staging file fails, the run
\* ends with the staging file still present, holding everything that was
\* submitted, and the source untouched.
C2_StagingKeptAfterCommitFailure ==
    (pc = "Exited" /\ failedAt = "Committing" /\ wsState = "closed")
        => (srcFile = startSrc /\ tmpFile = File(submitted))

\* C2 (amended): when the rename fails the source document is untouched, and
\* main's catch then unlinks the staging path: the staging file is gone when
\* that unlink succeeds, and only when it fails does the staging file of a
\* cleanly finished stream remain, holding every submitted line.
C2_CommitFailureThenCleanup ==
    (pc = "Exited" /\ failedAt = "Committing")
        => /\ srcFile = startSrc
           /\ ~committed
           /\ IF cleanup = "removed"
              THEN ~tmpFile.exists
              ELSE wsState = "closed" => tmpFile = File(submitted)

C2_Witness ==
    /\ pc = "Exited" /\ failedAt = "Committing"
    /\ wsState = "closed" /\ cleanup = "removed" /\ Len(submitted) > 0
    /\ srcFile # Transformed(srcFile)

----------------------------------------------------------------------------
(* C3 *)

\* C3 as stated: a failure of the log write after a successful commit leaves
\* the exit status at 0.
C3_LogFailureExitsZero ==
    (Terminated /\ failedAt = "Logging") => exitCode = 0

\* C3 (amended): a failure of the log write after a successful commit
\* reaches main's catch like any other failure, and the run completes with
\* exit status 1 although the document has been committed.
C3_LogFailureExitsOne ==
    (Terminated /\ failedAt = "Logging") => (exitCode = 1 /\ committed)

C3_Witness ==
    pc = "Exited" /\ failedAt = "Logging" /\ committed /\ logWrites = 0

----------------------------------------------------------------------------
(* C4 *)

\* C4: when the log write fails after the commit, the run ends (main's
\* cleanup included) with the source path holding the fully transformed
\* document.
C4_LogFailureKeepsTransformed ==
    (pc = "Exited" /\ failedAt = "Logging") => srcFile = Transformed(startSrc)

----------------------------------------------------------------------------
(* C5 *)

\* C5: the log is written only after a successful rename: whenever the log
\* has been written or altered in this run the commit has succeeded, and a
\* run that failed at validation, streaming, finalizing or committing, or
\* died in the loop, has not touched the log.
C5_LogOnlyAfterCommit ==
    /\ (logWrites > 0 \/ logFile # startLog) => committed
    /\ (failedAt \in {"Validating", "Streaming", "Finalizing", "Committing"}
            \/ pc = "Crashed")
          => (logFile = startLog /\ logWrites = 0)

C5_Witness ==
    pc = "Done" /\ logWrites = 1 /\ committed /\ logFile # startLog

----------------------------------------------------------------------------
(* C6 *)

RECURSIVE SumOfCounts(_, _)
SumOfCounts(ls, n) ==
    IF n = 0 THEN 0
    ELSE SumOfCounts(ls, n - 1) + countNonOverlappingOccurrences(ls[n], MatchToken)

\* C6: at every point of the loop and afterwards, totalOccurrencesCount is
\* the sum of the per-line counts of the lines processed so far, and
\* matchedLineNumbers is strictly increasing and holds exactly the one-based
\* numbers of the processed lines whose count is not zero.
C6_CountersMatchProcessedLines ==
    /\ currentLineNumber \in 0..Len(lines)
    /\ totalOccurrencesCount = SumOfCounts(lines, currentLineNumber)
    /\ \A i, j \in 1..Len(matchedLineNumbers) :
          i < j => matchedLineNumbers[i] < matchedLineNumbers[j]
    /\ { matchedLineNumbers[i] : i \in 1..Len(matchedLineNumbers) }
          = { n \in 1..currentLineNumber :
                 countNonOverlappingOccurrences(lines[n], MatchToken) > 0 }

C6_Witness ==
    /\ pc = "AwaitDrain"
    /\ currentLineNumber = 2
    /\ matchedLineNumbers = <<2>>
    /\ totalOccurrencesCount = 2

----------------------------------------------------------------------------
(* C7 *)

\* no line of the file contains the match token
TokenFree(file) ==
    \A i \in 1..Len(file.content) : indexOf(file.content[i].text, MatchToken, 0) = -1

\* C7 as stated, for a second run whose staging stream finished cleanly
\* and whose input ends every line with "\n" as the first run's own
\* output does: the document after the second run is the document after
\* the first, and the second run counts nothing.
C7_SecondRunChangesNothing ==
    (run = 2 /\ pc = "Done" /\ wsState = "closed"
       /\ EndsEveryLineWithNewline(startSrc))
        => (srcFile = startSrc /\ totalOccurrencesCount = 0)

\* C7 (amended): when the document left by the first run holds no match
\* token and ends every line with "\n", as every document the first run
\* wrote itself does, the second run counts 0 and submits every line as it
\* stands, so what it stages is the document after the first run; a second run
\* that finishes its stream cleanly and reaches Done leaves that document
\* in place. (A match followed by "evmode" leaves "HelloWorldevmode", which
\* holds the token again.)
C7_SecondRunOnTokenFreeOutput ==
    (run = 2 /\ wsState # "none" /\ TokenFree(startSrc)
       /\ EndsEveryLineWithNewline(startSrc))
        => /\ totalOccurrencesCount = 0
           /\ Len(submitted) <= Len(startSrc.content)
           /\ \A i \in 1..Len(submitted) : submitted[i] = startSrc.content[i]
           /\ pc \in {"Finalizing", "Committing", "Logging", "Done"}
                 => File(submitted) = startSrc
           /\ (pc = "Done" /\ wsState = "closed") => srcFile = startSrc

C7_Witness ==
    /\ run = 2 /\ pc = "Done" /\ wsState = "closed"
    /\ TokenFree(startSrc)
    /\ Len(submitted) = 2
    /\ MatchAt(startSrc.content[1].text, ReplacementToken, 0)
    /\ srcFile = startSrc

----------------------------------------------------------------------------
(* C8 *)

\* substitutions a rewrite performed, read off the growth of the line
Substitutions(originalLine, rewritten) ==
    (Len(rewritten) - Len(originalLine)) \div (Len(ReplacementToken) - Len(MatchToken))

RECURSIVE SumOfSubstitutions(_, _, _)
SumOfSubstitutions(ls, outs, n) ==
    IF n = 0 THEN 0
    ELSE SumOfSubstitutions(ls, outs, n - 1) + Substitutions(ls[n], outs[n].text)

\* zero-based starts of the matches a left-to-right scan finds, in order
RECURSIVE MatchStarts(_, _)
MatchStarts(haystack, fromIndex) ==
    LET at == indexOf(haystack, MatchToken, fromIndex)
    IN  IF at = -1 THEN << >>
        ELSE <<at>> \o MatchStarts(haystack, at + Len(MatchToken))

\* replacement tokens found in the rewritten line at the places where the
\* original had the match token (each earlier substitution shifts the place
\* by the difference of the token lengths)
ReplacementsAtMatches(originalLine, rewritten) ==
    LET starts == MatchStarts(originalLine, 0)
    IN  Cardinality({ k \in 1..Len(starts) :
            MatchAt(rewritten, ReplacementToken,
                    starts[k] + (k - 1) * (Len(ReplacementToken) - Len(MatchToken))) })

----------------------------------------------------------------------------
(* C9 *)

\* C9: when the source is missing or unreadable the run fails in validation
\* and ends with exit status 1; the write stream is never created, so no
\* staging file comes into being.
C9_MissingSourceFailsWithoutStaging ==
    /\ (pc \notin {"Idle", "Validating"} /\ ~(srcFile.exists /\ srcReadable))
          => failedAt = "Validating"
    /\ failedAt = "Validating"
          => /\ pc \in {"Failed", "Exited"}
             /\ wsState = "none"
             /\ ~committed
             /\ tmpFile.exists => tmpFile = startTmp
             /\ pc = "Exited" => exitCode = 1

C9_Witness ==
    /\ pc = "Exited" /\ failedAt = "Validating"
    /\ ~srcFile.exists /\ ~tmpFile.exists /\ exitCode = 1

----------------------------------------------------------------------------
(* C10 *)

\* C10 as stated: a run that fails validation ends with the source path,
\* the staging path and the log path exactly as they were.
C10_ValidationFailureChangesNothing ==
    (pc = "Exited" /\ failedAt = "Validating")
        => (srcFile = startSrc /\ tmpFile = startTmp /\ logFile = startLog)

\* C10 (amended): a run that fails validation leaves the source path and the
\* log path exactly as they were and creates or rewrites no file; main's
\* catch still unlinks the staging path, so a file already there is removed
\* when that unlink succeeds and left as it was when it fails.
C10_ValidationFailureOnlyUnlinksStaging ==
    failedAt = "Validating"
        => /\ srcFile = startSrc
           /\ logFile = startLog
           /\ IF cleanup = "removed"
              THEN startTmp.exists /\ ~tmpFile.exists
              ELSE tmpFile = startTmp

C10_Witness ==
    /\ pc = "Exited" /\ failedAt = "Validating"
    /\ startTmp.exists /\ ~tmpFile.exists /\ cleanup = "removed"
    /\ srcFile.exists /\ ~srcReadable

----------------------------------------------------------------------------
(* C11 *)

\* C11: the exit status is 0 exactly when the run reaches Done, where
\* validation, streaming, finalize, commit and log write all completed as
\* the code sees them, and it is 1 whenever the run has ended any other
\* way: after main's catch, or killed by an uncaught stream error.
C11_ExitZeroExactlyWhenDone ==
    /\ Terminated => (exitCode = 0 <=> pc = "Done")
    /\ pc = "Done" => (failedAt = "none" /\ committed /\ logWrites = 1)
    /\ (Terminated /\ pc # "Done") => exitCode = 1
    /\ (pc = "Exited") <=> (failedAt # "none" /\ cleanup # "none")

C11_Witness ==
    /\ pc = "Exited" /\ exitCode = 1
    /\ failedAt = "Finalizing" /\ wsState = "errored"

----------------------------------------------------------------------------
(* C12 *)

\* C12: a write that leaves the stream's buffer at or over the high-water
\* mark (write() returns false) suspends the loop with a drain owed; while
\* the drain is owed no line is pulled and none is submitted; and the drain
\* is only ever settled by the stream emptying its buffer.
C12_SuspendedUntilDrain ==
    [][ /\ (Len(submitted') > Len(submitted)
              /\ writableLength(wsBuffer') >= HighWaterMark)
            => (pc' = "AwaitDrain" /\ needDrain')
        /\ needDrain
            => (submitted' = submitted /\ currentLineNumber' = currentLineNumber)
        /\ (needDrain /\ ~needDrain')
            => (wsState = "open" /\ Len(wsBuffer) = 1 /\ wsBuffer' = << >>) ]_vars

\* the first write saturated the buffer, and the second line was submitted
\* after the first had drained
C12_Witness ==
    /\ Len(submitted) = 2
    /\ writableLength(<<submitted[1]>>) >= HighWaterMark
    /\ wsBuffer = <<submitted[2]>>
    /\ tmpFile = File(<<submitted[1]>>)

----------------------------------------------------------------------------
(* C13 *)

\* C13, for a fault of the staging stream: a run ended by an I/O failure
\* during streaming (while the loop runs or waits for drain) has gone
\* through the failed state and main's deletion of the staging file, and no
\* staging file remains when that deletion succeeded.
C13_StreamingFaultCleansUp ==
    (Terminated /\ pc # "Done" /\ failedAt \in {"none", "Streaming"}
        /\ wsState = "errored")
        => /\ pc = "Exited"
           /\ cleanup # "none"
           /\ cleanup = "removed" => ~tmpFile.exists

----------------------------------------------------------------------------
(* C14 *)

\* C14: once streaming has begun the run always comes to an end: it reaches
\* Done, or fails (through main's catch, or killed by an uncaught stream
\* error); it never stays suspended in the loop, waiting for drain, or in
\* the finalize step.
C14_StreamingRunEnds ==
    (pc \in {"Streaming", "AwaitDrain", "Finalizing"}) ~> Terminated

\* the stream failed while the loop was waiting for drain
C14_Witness ==
    pc = "Crashed" /\ needDrain /\ wsState = "errored" /\ Len(submitted) > 0

----------------------------------------------------------------------------
(* C15 *)

\* C15: the rename is invoked only once finalize has completed with the
\* stream closed and every submitted line in the staging file; a stream
\* whose flush or close failed never leads to the rename.
C15_CommitOnlyAfterCleanFinalize ==
    /\ pc = "Committing" => (wsState = "closed" /\ tmpFile = File(submitted))
    /\ wsState = "errored" => (~committed /\ pc \notin {"Committing", "Logging", "Done"})

----------------------------------------------------------------------------
(* C16 *)

\* reference scan, one position at a time: a match at the current position
\* is counted and the scan resumes at its end, otherwise the scan moves on
\* by one character
RECURSIVE ReferenceCount(_, _, _)
ReferenceCount(text, token, pos) ==
    IF pos + Len(token) > Len(text) THEN 0
    ELSE IF SubSeq(text, pos + 1, pos + Len(token)) = token
         THEN 1 + ReferenceCount(text, token, pos + Len(token))
         ELSE ReferenceCount(text, token, pos + 1)

FoldCase(text) == [i \in 1..Len(text) |-> IF text[i] = "A" THEN "a" ELSE text[i]]

\* C16: for every text and every non-empty token over the alphabet, the
\* count returned equals the count of the reference left-to-right scan that
\* resumes at the end of each exact match; a token that differs from the
\* text only in letter case is counted 0 times.
C16_CountEqualsReferenceScan ==
    (countResult # -1 /\ argNeedle # << >>)
        => /\ countResult = ReferenceCount(argHaystack, argNeedle, 0)
           /\ (argHaystack # argNeedle /\ FoldCase(argHaystack) = FoldCase(argNeedle))
                 => countResult = 0

\* "aaaa" holds "aa" twice side by side, and three times with overlaps
C16_Witness ==
    /\ argHaystack = <<"a", "a", "a", "a">>
    /\ argNeedle = <<"a", "a">>
    /\ countResult = 2

----------------------------------------------------------------------------
(* C17 *)

\* C17, the half the counting function decides: with an empty needle the
\* call returns 0 for every haystack. (The run itself takes no token: it
\* counts and rewrites the literal "devmode", so no run has an empty one.)
EmptyNeedleCountsZero ==
    (countResult # -1 /\ argNeedle = << >>) => countResult = 0

----------------------------------------------------------------------------
(* C18 *)

\* C18: a run that reaches Done has written the audit record exactly once;
\* the record reports the run's total, its line-number field shows "(none)"
\* exactly when that total is 0, and otherwise lists the matched line
\* numbers, which increase strictly.
C18_OneRecordWithNoneMarkerIffZero ==
    /\ logWrites <= 1
    /\ pc = "Done" =>
          /\ logWrites = 1
          /\ logFile.exists
          /\ Len(logFile.content) = 1
          /\ LET record == logFile.content[1]
                 field == record.lineNumbers
             IN  /\ record.occurrences = totalOccurrencesCount
                 /\ (field.marker = "(none)") <=> (record.occurrences = 0)
                 /\ field.marker # "(none)" =>
                       /\ field.numbers = matchedLineNumbers
                       /\ field.numbers # << >>
                       /\ \A i, j \in 1..Len(field.numbers) :
                             i < j => field.numbers[i] < field.numbers[j]

C18_Witness ==
    /\ pc = "Done" /\ logWrites = 1
    /\ Len(lines) = 2
    /\ logFile.content[1].occurrences = 0
    /\ logFile.content[1].lineNumbers.marker = "(none)"
    /\ startLog.exists

----------------------------------------------------------------------------
(* C19 *)

\* C19: the committed document has as many lines as the document the run
\* started from, in the same order, and its i-th line is the i-th source
\* line rewritten; no line is dropped, duplicated or reordered.
C19_CommittedIsLinewiseRewrite ==
    committed =>
        /\ Len(srcFile.content) = Len(startSrc.content)
        /\ \A i \in 1..Len(startSrc.content) :
              srcFile.content[i].text = replacedLineOf(startSrc.content[i].text)

----------------------------------------------------------------------------
(* C20 *)

\* the moves between stages within one run: each stage hands over to the
\* next one or to failure, and the loop alternates with its wait for drain
StageMoves ==
    { <<"Idle", "Validating">>,
      <<"Validating", "Streaming">>,   <<"Validating", "Failed">>,
      <<"Streaming", "AwaitDrain">>,   <<"AwaitDrain", "Streaming">>,
      <<"Streaming", "Finalizing">>,   <<"Streaming", "Failed">>,
      <<"Finalizing", "Committing">>,  <<"Finalizing", "Failed">>,
      <<"Committing", "Logging">>,     <<"Committing", "Failed">>,
      <<"Logging", "Done">>,           <<"Logging", "Failed">>,
      <<"Failed", "Exited">>,
      <<"Streaming", "Crashed">>, <<"AwaitDrain", "Crashed">>, <<"Failed", "Crashed">> }

\* C20: within a run the stages follow one another only in the order
\* Validating, Streaming, Finalizing, Committing, Logging, Done, none is
\* entered again, and once anything has failed (a stage threw, the staging
\* stream failed, or the process died) no line is submitted, no rename is
\* made and the log is not written.
C20_ForwardOnlyNothingAfterFailure ==
    [][ run' = run =>
          /\ pc' # pc => <<pc, pc'>> \in StageMoves
          /\ (failedAt # "none" \/ wsState = "errored" \/ pc = "Crashed")
                => /\ submitted' = submitted
                   /\ committed' = committed
                   /\ srcFile' = srcFile
                   /\ logWrites' = logWrites
                   /\ logFile' = logFile ]_vars

----------------------------------------------------------------------------
(* C21 *)

\* the stages whose await can throw into main's catch
ThrowingStages == {"Validating", "Streaming", "Finalizing", "Committing", "Logging"}

\* C21: when the unlink of the staging path fails inside main's catch, the
\* failure of the unlink is dropped: the run has ended, the error it ended
\* with is still the one the failing stage threw, and the exit status is 1.
C21_UnlinkFailureSuppressed ==
    cleanup = "unlinkFailed" =>
        /\ pc = "Exited"
        /\ failedAt \in ThrowingStages
        /\ exitCode = 1

\* the rename was rejected and the staging file, still there, could not be
\* unlinked
C21_Witness ==
    /\ cleanup = "unlinkFailed"
    /\ failedAt = "Committing"
    /\ wsState = "closed"
    /\ tmpFile.exists
    /\ pc = "Exited"

----------------------------------------------------------------------------
(* C22 *)

\* C22: every line of the committed document, the last one included, ends
\* with one "\n" whatever the source's terminators were; hence a committed
\* document equal to the source byte for byte means the source ended every
\* line with "\n" already.
C22_CommittedLinesEndWithNewline ==
    committed =>
        /\ EndsEveryLineWithNewline(srcFile)
        /\ srcFile = startSrc => EndsEveryLineWithNewline(startSrc)

----------------------------------------------------------------------------
(* C23 *)

\* C23: once a run has reached Done nothing is left at the staging path,
\* the rename having moved the staging file onto the source path; the same
\* is true of a run that failed in the Logging stage, before and after
\* main's catch.
C23_NoStagingFileAfterCommit ==
    (pc = "Done" \/ (pc \in {"Failed", "Exited"} /\ failedAt = "Logging"))
        => /\ committed
           /\ ~tmpFile.exists

\* a second run, the first having reached Done, whose log write failed
\* after it committed a document of its own
C23_Witness ==
    /\ run = 2
    /\ pc = "Exited"
    /\ failedAt = "Logging"
    /\ wsState = "closed"
    /\ Len(srcFile.content) > 0
    /\ ~tmpFile.exists

----------------------------------------------------------------------------
(* C24 *)

\* C24: a file found at the staging path when the run starts has no part
\* in the result: what the run commits to the source path is made of the
\* lines the run itself wrote, in the order it wrote them, and of nothing
\* else.
C24_CommittedOnlyFromThisRun ==
    committed =>
        \E n \in 0..Len(submitted) : srcFile.content = SubSeq(submitted, 1, n)

====
